---- MODULE Spec2Model ----
(***************************************************************************)
(* A model of github.com/mogaika/bmfont (bmfont.go): the BMFont binary     *)
(* reader.  A buffer is a Go slice: `b` holds its len(b) bytes and `spare` *)
(* the bytes of its backing array between len(b) and cap(b).  A slice      *)
(* expression s[lo:hi] is checked against the capacity, an index           *)
(* expression s[i] against the length; a failed check is a run-time panic. *)
(* Strings are sequences of UTF-8 bytes.                                   *)
(*                                                                         *)
(* A value that a definition uses several times is bound through a         *)
(* one-element set, CHOOSE res \in {e(x) : x \in {v}} : TRUE, which is     *)
(* LET x == v IN e(x) evaluated once.                                      *)
(***************************************************************************)
EXTENDS Integers, Sequences, FiniteSets, TLC

VARIABLES b, spare, floatBuffer, f, pc, err, line, ret

vars == <<b, spare, floatBuffer, f, pc, err, line, ret>>

-----------------------------------------------------------------------------
(* Bounds of the input family.                                             *)

\* The largest number of blocks laid out after the 4-byte header.
MaxBlocks == 2

\* The largest number of bytes appended after the last block.
MaxTrailing == 4

-----------------------------------------------------------------------------
(* Program constants.                                                      *)

BLOCK_TYPE_INFO == 1
BLOCK_TYPE_COMMON == 2
BLOCK_TYPE_PAGES == 3
BLOCK_TYPE_CHARS == 4
BLOCK_TYPE_KERNING_PAIRS == 5

\* The bytes of one Char record and of one KerningPair record.
CharRecordSize == 20
KerningPairRecordSize == 10

\* The offset of the font name in the info block.
InfoNameOffset == 14

\* The bytes of a block header: the tag and the 32-bit length.
BlockHeaderSize == 5

-----------------------------------------------------------------------------
(* encoding/binary and integer conversions.  Offsets are 0-based, as in    *)
(* the source; sequences are 1-based.                                      *)

Uint16(m, o) == m[o + 1] + 256 * m[o + 2]

\* A uint32 is kept as its two 16-bit halves, so that every value of the
\* type and its wrap-around arithmetic are represented exactly.
Uint32(m, o) == [hi |-> Uint16(m, o + 2), lo |-> Uint16(m, o)]

\* x + k and x * k in uint32 arithmetic, for a small constant k.
Add32(x, k) ==
  LET s == x.lo + k
  IN [hi |-> (x.hi + (s \div 65536)) % 65536, lo |-> s % 65536]

Mul32(x, k) ==
  LET p == x.lo * k
  IN [hi |-> (x.hi * k + (p \div 65536)) % 65536, lo |-> p % 65536]

\* x / 2 in uint32 arithmetic; the quotient is below 2^31.
Half32(x) == x.hi * 32768 + (x.lo \div 2)

\* Whether a uint32 is below 2^31, and its value as an integer then.  A
\* length, an index or a count at least 2^31 exceeds every capacity.
FitsInt(x) == x.hi < 32768

ToInt(x) == x.hi * 65536 + x.lo

\* The conversion int16(x) of a uint16: two's complement.
int16(x) == IF x >= 32768 THEN x - 65536 ELSE x

\* A Go slice over the backing array: offset, length and capacity.
Slice(off, len, cap) == [off |-> off, len |-> len, cap |-> cap]

-----------------------------------------------------------------------------
(* charmap.Windows1252 (the package variable Encoding) and its decoder.    *)

\* The code points of bytes 0x80..0x9F in Windows-1252.
Windows1252High ==
  << 8364, 129, 8218, 402, 8222, 8230, 8224, 8225,
     710, 8240, 352, 8249, 338, 141, 381, 143,
     144, 8216, 8217, 8220, 8221, 8226, 8211, 8212,
     732, 8482, 353, 8250, 339, 157, 382, 376 >>

CodePoint(c) == IF c >= 128 /\ c < 160 THEN Windows1252High[c - 127] ELSE c

\* The UTF-8 encoding of a code point below 0x10000.
UTF8(r) ==
  IF r < 128 THEN <<r>>
  ELSE IF r < 2048 THEN <<192 + (r \div 64), 128 + (r % 64)>>
  ELSE <<224 + (r \div 4096), 128 + ((r \div 64) % 64), 128 + (r % 64)>>

\* Decoder.Transform(dst, src, atEOF) with len(dst) = dstLen: the bytes
\* written to dst, or ErrShortDst when the next rune does not fit.
RECURSIVE TransformFrom(_, _, _, _)
TransformFrom(dstLen, src, i, out) ==
  IF i > Len(src) THEN [err |-> FALSE, out |-> out]
  ELSE CHOOSE res \in
         {IF Len(next) > dstLen
          THEN [err |-> TRUE, out |-> out]
          ELSE TransformFrom(dstLen, src, i + 1, next) :
            next \in {out \o UTF8(CodePoint(src[i]))}} : TRUE

Transform(dstLen, src) == TransformFrom(dstLen, src, 1, <<>>)

\* strings.Split(s, "\x00"): the segments between the separators, one more
\* than there are separators.
RECURSIVE SplitFrom(_, _, _, _)
SplitFrom(s, i, cur, acc) ==
  IF i > Len(s) THEN Append(acc, cur)
  ELSE CHOOSE res \in
         {SplitFrom(s, i + 1, nx[1], nx[2]) :
            nx \in {IF s[i] = 0 THEN <<<<>>, Append(acc, cur)>>
                    ELSE <<Append(cur, s[i]), acc>>}} : TRUE

Split(s) == SplitFrom(s, 1, <<>>, <<>>)

-----------------------------------------------------------------------------
(* The fixed-layout decoders.  A layout lists the fields in the order the  *)
(* source assigns them, one per source line: a field of width 2 or 4 is    *)
(* read through a slice expression b[off:off+w], a field of width 1        *)
(* through an index expression b[off].                                     *)

Field(name, off, w, signed) == [name |-> name, off |-> off, w |-> w, signed |-> signed]

InfoLayout ==
  << Field("FontSize", 0, 2, TRUE), Field("BitField", 2, 1, FALSE),
     Field("CharSet", 3, 1, FALSE), Field("StretchH", 4, 2, FALSE),
     Field("Aa", 6, 1, FALSE), Field("PaddingUp", 7, 1, FALSE),
     Field("PaddingRight", 8, 1, FALSE), Field("PaddingDown", 9, 1, FALSE),
     Field("PaddingLeft", 10, 1, FALSE), Field("SpacingHoriz", 11, 1, FALSE),
     Field("SpacingVert", 12, 1, FALSE), Field("Outline", 13, 1, FALSE) >>

CommonLayout ==
  << Field("LineHeight", 0, 2, FALSE), Field("Base", 2, 2, FALSE),
     Field("ScaleW", 4, 2, FALSE), Field("ScaleH", 6, 2, FALSE),
     Field("Pages", 8, 2, FALSE), Field("BitField", 10, 1, FALSE),
     Field("AlphaChnl", 11, 1, FALSE), Field("RedChnl", 12, 1, FALSE),
     Field("GreenChnl", 13, 1, FALSE), Field("BlueChnl", 14, 1, FALSE) >>

CharLayout ==
  << Field("Id", 0, 4, FALSE), Field("X", 4, 2, FALSE), Field("Y", 6, 2, FALSE),
     Field("Width", 8, 2, FALSE), Field("Height", 10, 2, FALSE),
     Field("Xoffset", 12, 2, TRUE), Field("Yoffset", 14, 2, TRUE),
     Field("Xadvance", 16, 2, TRUE), Field("Page", 18, 1, FALSE),
     Field("Chnl", 19, 1, FALSE) >>

\* Amount is declared uint16 and assigned without a conversion.
KerningPairLayout ==
  << Field("First", 0, 4, FALSE), Field("Second", 4, 4, FALSE),
     Field("Amount", 8, 2, FALSE) >>

\* Whether the bounds check of field fld passes on slice s.
InBounds(fld, s) ==
  IF fld.w > 1 THEN fld.off + fld.w <= s.cap ELSE fld.off < s.len

\* The value the source assigns to field fld from slice s of memory m.
FieldValue(m, fld, s) ==
  LET raw == CASE fld.w = 1 -> m[s.off + fld.off + 1]
               [] fld.w = 2 -> Uint16(m, s.off + fld.off)
               [] OTHER -> Uint32(m, s.off + fld.off)
  IN IF fld.signed THEN int16(raw) ELSE raw

\* The index of the first field whose bounds check panics; 0 when none does.
FirstPanic(layout, s) ==
  IF \A k \in 1..Len(layout) : InBounds(layout[k], s) THEN 0
  ELSE CHOOSE k \in 1..Len(layout) :
         ~InBounds(layout[k], s) /\ \A j \in 1..(k - 1) : InBounds(layout[j], s)

\* The record after the assignments that ran: the fields before the first
\* panic hold their decoded values, the others the zero value.
DecodeFields(m, layout, s) ==
  LET names == {layout[k].name : k \in 1..Len(layout)}
      idx(n) == CHOOSE k \in 1..Len(layout) : layout[k].name = n
  IN CHOOSE res \in
       {[rec |-> [n \in names |->
                    IF p = 0 \/ idx(n) < p THEN FieldValue(m, layout[idx(n)], s) ELSE 0],
         panic |-> p] : p \in {FirstPanic(layout, s)}} : TRUE

\* (*Info).fromBinary: the fixed fields, then the font name transcoded into
\* a buffer of ((len(b)-14)*5)/2 bytes.
Info_fromBinary(m, s) ==
  LET fontBuf == ((s.len - InfoNameOffset) * 5) \div 2
      name == [i \in 1..(s.len - InfoNameOffset) |-> m[s.off + InfoNameOffset + i]]
  IN CHOOSE res \in
       {IF d.panic # 0
        THEN [val |-> d.rec @@ [FontName |-> <<>>], out |-> "panic", line |-> 50 + d.panic]
        ELSE CHOOSE r \in
               {IF t.err
                THEN [val |-> d.rec @@ [FontName |-> <<>>], out |-> "error", line |-> 66]
                ELSE [val |-> d.rec @@ [FontName |-> t.out], out |-> "ok", line |-> 70] :
                  t \in {Transform(fontBuf, name)}} : TRUE :
          d \in {DecodeFields(m, InfoLayout, s)}} : TRUE

\* (*Common).fromBinary.
Common_fromBinary(m, s) ==
  CHOOSE res \in
    {IF d.panic # 0
     THEN [val |-> d.rec, out |-> "panic", line |-> 86 + d.panic]
     ELSE [val |-> d.rec, out |-> "ok", line |-> 97] :
       d \in {DecodeFields(m, CommonLayout, s)}} : TRUE

\* (*Char).fromBinary on a 20-byte sub-slice.
Char_fromBinary(m, s) == DecodeFields(m, CharLayout, s).rec

\* (*KerningPair).fromBinary on a 10-byte sub-slice.
KerningPair_fromBinary(m, s) == DecodeFields(m, KerningPairLayout, s).rec

-----------------------------------------------------------------------------
(* The Font and the block dispatcher.  An optional pointer is the empty    *)
(* sequence (nil) or a one-element sequence.                               *)

NewFont == [Info |-> <<>>, Common |-> <<>>, Pages |-> <<>>, Chars |-> <<>>,
            KerningPairs |-> <<>>]

\* The loop condition: len(floatBuffer) > 4.
LoopCondOffByOne(remaining) == remaining > BlockHeaderSize

LoopCond(remaining) == remaining > BlockHeaderSize - 1

\* blockLenght / 20 and blockLenght / 10, for the length of a payload that
\* was sliced (so below 2^31).
charsCnt(blockLenght) == ToInt(blockLenght) \div CharRecordSize

kerningPairsCnt(blockLenght) == ToInt(blockLenght) \div KerningPairRecordSize

\* 5+blockLenght in uint32 arithmetic.
BlockEnd(blockLenght) == Add32(blockLenght, BlockHeaderSize)

\* floatBuffer = floatBuffer[5+blockLenght:], as an offset into b.
AdvanceHeaderOnly(off, blockLenght) == off + BlockHeaderSize

Advance(off, blockLenght) == off + ToInt(BlockEnd(blockLenght))

\* f.Pages = strings.Split(...), then f.Pages[:len(f.Pages)-1].
PagesAssign(old, segs) == SubSeq(segs, 1, Len(segs) - 1)

\* f.Chars = make([]Char, charsCnt), then each element decoded.
CharsAppend(old, recs) == old \o recs

CharsAssign(old, recs) == recs

\* f.KerningPairs = make([]KerningPair, kerningPairsCnt), then each decoded.
KerningPairsAssign(old, recs) == recs

\* One case of the switch on blockId, on the payload slice blockData.
InfoCase(m, font, blockData) ==
  CHOOSE res \in
    {[f |-> [font EXCEPT !.Info = <<r.val>>], out |-> r.out, line |-> r.line,
      err |-> IF r.out = "error" THEN "Error parsing info block" ELSE "nil"] :
       r \in {Info_fromBinary(m, blockData)}} : TRUE

CommonCase(m, font, blockData) ==
  CHOOSE res \in
    {[f |-> [font EXCEPT !.Common = <<r.val>>], out |-> r.out, line |-> r.line,
      err |-> "nil"] :
       r \in {Common_fromBinary(m, blockData)}} : TRUE

PagesCase(m, font, blockData, blockLenght) ==
  LET fontBuf == Half32(Mul32(blockLenght, 5))
      src == [i \in 1..blockData.len |-> m[blockData.off + i]]
  IN CHOOSE res \in
       {IF t.err
        THEN [f |-> font, out |-> "error", line |-> 181, err |-> "Error parsing pages text"]
        ELSE [f |-> [font EXCEPT !.Pages = PagesAssign(font.Pages, Split(t.out))],
              out |-> "ok", line |-> 184, err |-> "nil"] :
          t \in {Transform(fontBuf, src)}} : TRUE

CharsCase(m, font, blockData, blockLenght) ==
  LET recs == [i \in 1..charsCnt(blockLenght) |->
                 Char_fromBinary(m, Slice(blockData.off + (i - 1) * CharRecordSize,
                                          CharRecordSize,
                                          blockData.cap - (i - 1) * CharRecordSize))]
  IN [f |-> [font EXCEPT !.Chars = CharsAssign(font.Chars, recs)],
      out |-> "ok", line |-> 193, err |-> "nil"]

KerningPairsCase(m, font, blockData, blockLenght) ==
  LET recs == [i \in 1..kerningPairsCnt(blockLenght) |->
                 KerningPair_fromBinary(m,
                    Slice(blockData.off + (i - 1) * KerningPairRecordSize,
                          KerningPairRecordSize,
                          blockData.cap - (i - 1) * KerningPairRecordSize))]
  IN [f |-> [font EXCEPT !.KerningPairs = KerningPairsAssign(font.KerningPairs, recs)],
      out |-> "ok", line |-> 201, err |-> "nil"]

\* The tag and the declared length of the block header at offset off.
blockId(m, off) == m[off + 1]

blockLenght(m, off) == Uint32(m, off + 1)

KnownTags == {BLOCK_TYPE_INFO, BLOCK_TYPE_COMMON, BLOCK_TYPE_PAGES,
              BLOCK_TYPE_CHARS, BLOCK_TYPE_KERNING_PAIRS}

\* The switch on blockId (lines 167 to 202) on the payload slice blockData.
Switch(m, font, id, blockData, L) ==
  CASE id = BLOCK_TYPE_INFO -> InfoCase(m, font, blockData)
    [] id = BLOCK_TYPE_COMMON -> CommonCase(m, font, blockData)
    [] id = BLOCK_TYPE_PAGES -> PagesCase(m, font, blockData, L)
    [] id = BLOCK_TYPE_CHARS -> CharsCase(m, font, blockData, L)
    [] id = BLOCK_TYPE_KERNING_PAIRS -> KerningPairsCase(m, font, blockData, L)
    [] OTHER -> [f |-> font, out |-> "ok", line |-> 202, err |-> "nil"]

\* What follows the switch with result r: the panic or the error it ended
\* in, or else the advance of floatBuffer (line 204) over fbLen bytes.
AfterSwitch(st, r, L, fbLen) ==
  IF r.out = "panic"
  THEN [st EXCEPT !.f = r.f, !.pc = "panicked", !.line = r.line]
  ELSE IF r.out = "error"
  THEN [st EXCEPT !.f = r.f, !.pc = "return", !.err = r.err, !.line = r.line]
  ELSE IF Advance(st.off, L) - st.off > fbLen
  THEN [st EXCEPT !.f = r.f, !.pc = "panicked", !.line = 204]
  ELSE [st EXCEPT !.f = r.f, !.off = Advance(st.off, L), !.line = 204]

\* One iteration of the loop of FromBuffer on memory m with len(b) = n, from
\* the state st = [f, off, pc, err, line]: the slice of the payload (line
\* 165), the switch, and the advance of floatBuffer (line 204).  The result
\* of the switch is bound through a one-element set, which evaluates it once.
LoopIteration(m, n, st) ==
  LET off == st.off
      id == blockId(m, off)
      L == blockLenght(m, off)
      hi == BlockEnd(L)
      fbLen == n - off
      fbCap == Len(m) - off
      blockData == Slice(off + BlockHeaderSize, ToInt(hi) - BlockHeaderSize,
                         fbCap - BlockHeaderSize)
  IN IF ~(FitsInt(hi) /\ BlockHeaderSize <= ToInt(hi) /\ ToInt(hi) <= fbCap)
     THEN [st EXCEPT !.pc = "panicked", !.line = 165]
     ELSE CHOOSE res \in {AfterSwitch(st, r, L, fbLen) :
                            r \in {Switch(m, st.f, id, blockData, L)}} : TRUE

\* The loop of FromBuffer run to its end from state st.
RECURSIVE RunLoop(_, _, _)
RunLoop(m, n, st) ==
  IF st.pc # "loop" THEN st
  ELSE IF LoopCond(n - st.off) THEN RunLoop(m, n, LoopIteration(m, n, st))
  ELSE [st EXCEPT !.pc = "return", !.line = 206]

\* The header checks of FromBuffer (lines 153 to 161).  b[:3] in the first
\* error message is a slice expression, b[4] in the second an index.
HeaderCheck(m, n, st) ==
  LET prefix == <<66, 77, 70>>
      mismatch == {i \in 1..3 : i <= n /\ m[i] # prefix[i]}
      firstBad == IF mismatch = {} THEN 4 ELSE CHOOSE i \in mismatch : \A j \in mismatch : i <= j
  IN IF n < firstBad /\ n < 3
     THEN [st EXCEPT !.pc = "panicked", !.line = 153]
     ELSE IF firstBad <= 3
     THEN IF Len(m) < 3
          THEN [st EXCEPT !.pc = "panicked", !.line = 154]
          ELSE [st EXCEPT !.pc = "return", !.err = "Invalid identifier", !.line = 154]
     ELSE IF n < 4
     THEN [st EXCEPT !.pc = "panicked", !.line = 157]
     ELSE IF m[4] # 3
     THEN IF n < 5
          THEN [st EXCEPT !.pc = "panicked", !.line = 158]
          ELSE [st EXCEPT !.pc = "return", !.err = "Unsupported version", !.line = 158]
     ELSE [st EXCEPT !.pc = "loop", !.off = 4, !.line = 161]

-----------------------------------------------------------------------------
(* The inputs: a header, up to MaxBlocks blocks of the catalog, trailing   *)
(* bytes, and the spare capacity of the backing array.                     *)

LE32(x) == <<x % 256, (x \div 256) % 256, (x \div 65536) % 256, (x \div 16777216) % 256>>

\* A block as laid out in the stream: tag, declared length, payload bytes.
Block(tag, declared, payload) == <<tag>> \o LE32(declared) \o payload

\* A block whose declared length is given by its four bytes.
RawBlock(tag, lenBytes, payload) == <<tag>> \o lenBytes \o payload

InfoHead == <<255, 255, 144, 0, 100, 0, 1, 1, 2, 3, 4, 5, 6, 7>>

CommonBody(pages) == <<32, 0, 24, 0, 0, 1, 0, 2, pages, 0, 1, 1, 2, 3, 4>>

CharRecord(id) == <<id, 0, 0, 0, 10, 0, 20, 0, 8, 0, 9, 0, 255, 255, 254, 255, 0, 128, 0, 15>>

KerningPairRecord(first) == <<first, 0, 0, 0, 66, 0, 0, 0, 255, 255>>

InfoBlocks ==
  { Block(1, 16, InfoHead \o <<65, 0>>),
    Block(1, 15, InfoHead \o <<128>>),
    Block(1, 13, SubSeq(InfoHead, 1, 13)),
    Block(1, 1, <<7>>) }

CommonBlocks ==
  { Block(2, 15, CommonBody(1)),
    Block(2, 14, SubSeq(CommonBody(1), 1, 14)),
    Block(2, 9, SubSeq(CommonBody(1), 1, 9)) }

PagesBlocks ==
  { Block(3, 0, <<>>),
    Block(3, 1, <<0>>),
    Block(3, 2, <<97, 0>>),
    Block(3, 4, <<97, 0, 98, 0>>),
    Block(3, 3, <<97, 0, 0>>),
    Block(3, 2, <<233, 0>>),
    Block(3, 5, <<128, 128, 128, 128, 0>>) }

CharsBlocks ==
  { Block(4, 20, CharRecord(65)),
    Block(4, 21, CharRecord(65) \o <<1>>),
    Block(4, 40, CharRecord(66) \o CharRecord(67)) }

KerningPairsBlocks ==
  { Block(5, 10, KerningPairRecord(65)),
    Block(5, 11, KerningPairRecord(65) \o <<1>>) }

UnknownBlocks ==
  { Block(99, 3, <<1, 2, 3>>),
    Block(200, 0, <<>>) }

\* Blocks whose declared length exceeds their payload: by 20 bytes, by one
\* byte (within the spare capacity, when there is some), and with L = 2^32-1 and 2^32-5 (5+L wraps around to 4 and 0) and
\* L = 2^32-6 (5+L = 2^32-1).
OverlongBlocks ==
  { Block(4, 40, CharRecord(65)),
    Block(3, 2, <<97>>),
    RawBlock(99, <<255, 255, 255, 255>>, <<>>),
    RawBlock(3, <<251, 255, 255, 255>>, <<>>),
    RawBlock(5, <<250, 255, 255, 255>>, <<>>) }

Catalog == InfoBlocks \cup CommonBlocks \cup PagesBlocks \cup CharsBlocks
           \cup KerningPairsBlocks \cup UnknownBlocks \cup OverlongBlocks

RECURSIVE Streams(_)
Streams(k) ==
  IF k = 0 THEN {<<>>}
  ELSE Streams(k - 1) \cup {s \o blk : s \in Streams(k - 1), blk \in Catalog}

Trailers == {[i \in 1..k |-> 9] : k \in {0, MaxTrailing}}

GoodHeader == <<66, 77, 70, 3>>

\* Buffers with a bad or missing header: "XYZ" + 3, "BMF" + 2, and prefixes.
BadHeaderBuffers ==
  LET heads == {<<88, 89, 90, 3>>, <<66, 77, 70, 2>>}
  IN {h \o s : h \in heads, s \in Streams(1)}
     \cup {<<>>, <<66>>, <<88>>, <<66, 77>>, <<66, 77, 70>>}

\* An unknown block between two known ones.
Sandwiches ==
  {x \o u \o y : x \in {Block(2, 15, CommonBody(1)), Block(4, 20, CharRecord(65))},
                u \in UnknownBlocks,
                y \in {Block(3, 2, <<97, 0>>), Block(5, 10, KerningPairRecord(65))}}

Buffers ==
  {GoodHeader \o s \o t : s \in Streams(MaxBlocks) \cup Sandwiches, t \in Trailers}
  \cup BadHeaderBuffers

\* The bytes between len(b) and cap(b).
SpareCapacities == {<<>>, <<0, 128>>}

-----------------------------------------------------------------------------
(* The state machine: NewFontFromBuf(b) calling f.FromBuffer(b).           *)

\* The backing array of b.
Mem == b \o spare

\* The local state of FromBuffer, as the operators above take it.
Cur == [f |-> f, off |-> floatBuffer, pc |-> pc, err |-> err, line |-> line]

Install(st) ==
  /\ f' = st.f
  /\ floatBuffer' = st.off
  /\ pc' = st.pc
  /\ err' = st.err
  /\ line' = st.line
  /\ UNCHANGED <<b, spare, ret>>

\* Before the call: no buffer has been passed yet.
Init ==
  /\ b = <<>>
  /\ spare = <<>>
  /\ floatBuffer = 0
  /\ f = NewFont
  /\ pc = "idle"
  /\ err = "nil"
  /\ line = 209
  /\ ret = <<>>

\* The caller passes a buffer to NewFontFromBuf, which makes the empty Font
\* (line 210) and calls FromBuffer on it.
Call ==
  /\ pc = "idle"
  /\ \E buf \in Buffers, sp \in SpareCapacities :
        /\ b' = buf
        /\ spare' = sp
  /\ f' = NewFont
  /\ pc' = "start"
  /\ line' = 210
  /\ UNCHANGED <<floatBuffer, err, ret>>

\* Lines 153 to 161.
CheckHeader ==
  /\ pc = "start"
  /\ \E st \in {HeaderCheck(Mem, Len(b), Cur)} : Install(st)

\* The loop is entered on a block whose tag is in tags.
Dispatches(tags) ==
  /\ pc = "loop"
  /\ LoopCond(Len(b) - floatBuffer)
  /\ blockId(Mem, floatBuffer) \in tags

\* One iteration of the loop, by the case of the switch it takes.
ReadInfo ==
  /\ Dispatches({BLOCK_TYPE_INFO})
  /\ \E st \in {LoopIteration(Mem, Len(b), Cur)} : Install(st)

ReadCommon ==
  /\ Dispatches({BLOCK_TYPE_COMMON})
  /\ \E st \in {LoopIteration(Mem, Len(b), Cur)} : Install(st)

ReadPages ==
  /\ Dispatches({BLOCK_TYPE_PAGES})
  /\ \E st \in {LoopIteration(Mem, Len(b), Cur)} : Install(st)

ReadChars ==
  /\ Dispatches({BLOCK_TYPE_CHARS})
  /\ \E st \in {LoopIteration(Mem, Len(b), Cur)} : Install(st)

ReadKerningPairs ==
  /\ Dispatches({BLOCK_TYPE_KERNING_PAIRS})
  /\ \E st \in {LoopIteration(Mem, Len(b), Cur)} : Install(st)

SkipUnknown ==
  /\ Dispatches((0..255) \ KnownTags)
  /\ \E st \in {LoopIteration(Mem, Len(b), Cur)} : Install(st)

\* The loop condition fails: return nil (line 206).
ExitLoop ==
  /\ pc = "loop"
  /\ ~LoopCond(Len(b) - floatBuffer)
  /\ pc' = "return"
  /\ line' = 206
  /\ UNCHANGED <<b, spare, floatBuffer, f, err, ret>>

\* NewFontFromBuf returns f and the error of FromBuffer (line 211).
NewFontFromBuf ==
  /\ pc = "return"
  /\ ret' = <<[f |-> f, err |-> err]>>
  /\ pc' = "done"
  /\ line' = 211
  /\ UNCHANGED <<b, spare, floatBuffer, f, err>>

Next ==
  \/ Call
  \/ CheckHeader
  \/ ReadInfo
  \/ ReadCommon
  \/ ReadPages
  \/ ReadChars
  \/ ReadKerningPairs
  \/ SkipUnknown
  \/ ExitLoop
  \/ NewFontFromBuf

Spec == Init /\ [][Next]_vars

\* The call runs to its end: nothing suspends it.
FairSpec == Spec /\ WF_vars(Next)

-----------------------------------------------------------------------------
(* Vocabulary of the properties.                                           *)

\* The bytes from floatBuffer to the end of b.
Remaining == Len(b) - floatBuffer

\* The loop has a block header before it: at least 5 bytes remain.
AtBlock == floatBuffer >= 4 /\ Remaining >= 5

\* The tag and the declared length L of the block header at floatBuffer.
CurTag == Mem[floatBuffer + 1]

CurLen == [hi |-> Mem[floatBuffer + 4] + 256 * Mem[floatBuffer + 5],
           lo |-> Mem[floatBuffer + 2] + 256 * Mem[floatBuffer + 3]]

\* L is at most the number of bytes that follow the 5-byte block header.
Fits == CurLen.hi < 32768 /\ CurLen.hi * 65536 + CurLen.lo <= Remaining - 5

\* L as a number, for a length that fits.
L == CurLen.hi * 65536 + CurLen.lo

\* The payload of the block at floatBuffer, for a length that fits.
Payload == [i \in 1..L |-> b[floatBuffer + 5 + i]]

\* The call has ended: NewFontFromBuf returned, or a panic unwound it.
Ended == pc \in {"done", "panicked"}

\* The value of a 16-bit pattern read as a two's-complement number.
TwosComplement16(lowByte, highByte) ==
  ((lowByte + 256 * highByte + 32768) % 65536) - 32768

\* An iteration of the loop that decoded a block of tag t and went on.
Decoded(t) == pc = "loop" /\ AtBlock /\ CurTag = t /\ Fits /\ pc' = "loop"

-----------------------------------------------------------------------------
(* C1: whenever the dispatcher reaches a block header whose declared       *)
(* length L is larger than the number of bytes remaining after the header  *)
(* (also when 5+L wraps around in 32 bits), the call ends by returning a   *)
(* TruncatedInput error and never in a panic.                              *)
C1_TruncatedBlockIsTypedError ==
  (Ended /\ AtBlock /\ ~Fits) => (pc = "done" /\ ret[1].err = "TruncatedInput")

(* C2: for a buffer of at least 4 bytes, a magic other than "BMF" ends the *)
(* call with the invalid-identifier error and "BMF" with a version other   *)
(* than 3 with the unsupported-version error; the error is returned as a   *)
(* value, never a panic, and the document stays empty.                     *)
C2_BadHeaderIsReturnedError ==
  (Ended /\ Len(b) >= 4) =>
     /\ (<<b[1], b[2], b[3]>> # <<66, 77, 70>> =>
           pc = "done" /\ ret[1].err = "Invalid identifier" /\ ret[1].f = NewFont)
     /\ (<<b[1], b[2], b[3]>> = <<66, 77, 70>> /\ b[4] # 3 =>
           pc = "done" /\ ret[1].err = "Unsupported version" /\ ret[1].f = NewFont)

(* C3: decoding is all-or-nothing: when the call returns an error, the     *)
(* Font the caller receives holds nothing that the blocks before the       *)
(* failing one populated (the failing block is the one at floatBuffer, so  *)
(* an Info it set itself is not counted).                                  *)
C3_NoPartialDocumentOnError ==
  (pc = "done" /\ ret[1].err # "nil") =>
     /\ ret[1].f.Common = <<>>
     /\ ret[1].f.Pages = <<>>
     /\ ret[1].f.Chars = <<>>
     /\ ret[1].f.KerningPairs = <<>>
     /\ (ret[1].f.Info # <<>> => AtBlock /\ CurTag = 1)

(* C4: a block whose tag is not one of 1..5 and whose declared length fits *)
(* is skipped: the iteration is not an error, leaves every field of the    *)
(* Font unchanged and consumes exactly 5+L bytes, and the rest of the      *)
(* decode ends as the decode of the stream with that block removed.        *)
C4_SameAsRemoved ==
  LET m2 == SubSeq(Mem, 1, floatBuffer) \o SubSeq(Mem, floatBuffer + 5 + L + 1, Len(Mem))
      with == RunLoop(Mem, Len(b), Cur)
      without == RunLoop(m2, Len(b) - (5 + L), Cur)
  IN /\ with.f = without.f
     /\ with.pc = without.pc
     /\ with.err = without.err
     /\ with.line = without.line
     /\ with.off = without.off + 5 + L

C4_UnknownBlockSkipped ==
  [][(pc = "loop" /\ AtBlock /\ CurTag \notin 1..5 /\ Fits) =>
        /\ pc' = "loop"
        /\ err' = "nil"
        /\ f' = f
        /\ floatBuffer' = floatBuffer + 5 + L
        /\ C4_SameAsRemoved]_vars

\* An unknown block was skipped and the known block after it decoded.
C4_Witness ==
  /\ pc = "done"
  /\ ret[1].err = "nil"
  /\ Len(b) > 12
  /\ b[5] = 99
  /\ b[13] = 4
  /\ Len(ret[1].f.Chars) = 1

(* C5: a Chars block (record size 20) or KerningPairs block (record size   *)
(* 10) that decodes has a declared length L that is an exact multiple of   *)
(* the record size and yields L divided by the record size records; a      *)
(* length with a remainder is never accepted.                              *)
C5_RecordBlocksAreWholeRecords ==
  [][/\ (Decoded(4) => L % 20 = 0 /\ Len(f'.Chars) * 20 = L)
     /\ (Decoded(5) => L % 10 = 0 /\ Len(f'.KerningPairs) * 10 = L)]_vars

(* C6: the signed 16-bit fields (Info font size; Char xoffset, yoffset and *)
(* xadvance; KerningPair amount) decode little-endian as the               *)
(* two's-complement value of their 16-bit pattern.                         *)
C6_SignedFieldsAreTwosComplement ==
  [][/\ (Decoded(1) =>
            f'.Info[1].FontSize = TwosComplement16(Payload[1], Payload[2]))
     /\ (Decoded(4) => \A i \in 1..Len(f'.Chars) :
            LET o == (i - 1) * 20
            IN /\ f'.Chars[i].Xoffset = TwosComplement16(Payload[o + 13], Payload[o + 14])
               /\ f'.Chars[i].Yoffset = TwosComplement16(Payload[o + 15], Payload[o + 16])
               /\ f'.Chars[i].Xadvance = TwosComplement16(Payload[o + 17], Payload[o + 18]))
     /\ (Decoded(5) => \A i \in 1..Len(f'.KerningPairs) :
            LET o == (i - 1) * 10
            IN f'.KerningPairs[i].Amount = TwosComplement16(Payload[o + 9], Payload[o + 10]))]_vars

(* C7: a Pages payload that is the concatenation of n >= 0 null-terminated *)
(* filenames decodes to exactly those n filenames, transcoded, in stream   *)
(* order; so the number of pages is Common.Pages when Common declares n.   *)
RECURSIVE C7_Filenames(_)
C7_Filenames(p) ==
  IF p = <<>> THEN <<>>
  ELSE LET k == CHOOSE i \in 1..Len(p) : p[i] = 0 /\ \A j \in 1..(i - 1) : p[j] # 0
           name == SubSeq(p, 1, k - 1)
       IN <<Transform(3 * Len(name), name).out>> \o C7_Filenames(SubSeq(p, k + 1, Len(p)))

C7_PagesAreTheFilenames ==
  [][(pc = "loop" /\ AtBlock /\ CurTag = 3 /\ Fits
        /\ (L = 0 \/ Payload[L] = 0)) =>
        /\ pc' = "loop"
        /\ f'.Pages = C7_Filenames(Payload)
        /\ (f.Common # <<>> /\ f.Common[1].Pages = Len(C7_Filenames(Payload)) =>
              Len(f'.Pages) = f.Common[1].Pages)]_vars

(* C8: the loop always terminates: the pointer starts at byte 4, every     *)
(* iteration that completes advances it by exactly 5+L, at least 5, never  *)
(* backwards and never past the end of b; the call returns nil only from a *)
(* pointer with fewer than 5 bytes after it, those 0..4 bytes ignored; and *)
(* a stream of well-formed blocks is walked to that point and returns nil. *)
(* A block is well-formed when its declared length fits, an Info payload   *)
(* has its 14 fixed bytes and a Common payload its 15, and the text of an  *)
(* Info or Pages block transcodes within the output buffer allotted to it  *)
(* (C7 covers text that does not).                                         *)
C8_TextFits(p, bufLen) == ~Transform(bufLen, p).err

RECURSIVE C8_WellFormedFrom(_)
C8_WellFormedFrom(off) ==
  IF Len(b) - off < 5 THEN TRUE
  ELSE LET tag == b[off + 1]
           top == b[off + 4] + 256 * b[off + 5]
           len == top * 65536 + b[off + 2] + 256 * b[off + 3]
           payload == [i \in 1..len |-> b[off + 5 + i]]
       IN /\ top < 32768
          /\ len <= Len(b) - off - 5
          /\ (tag = 1 => len >= 14
                 /\ C8_TextFits(SubSeq(payload, 15, len), ((len - 14) * 5) \div 2))
          /\ (tag = 2 => len >= 15)
          /\ (tag = 3 => C8_TextFits(payload, (len * 5) \div 2))
          /\ C8_WellFormedFrom(off + 5 + len)

C8_WellFormed == Len(b) >= 4 /\ SubSeq(b, 1, 4) = <<66, 77, 70, 3>> /\ C8_WellFormedFrom(4)

C8_Step ==
  /\ (pc = "start" /\ pc' = "loop" => floatBuffer' = 4)
  /\ (pc = "loop" /\ pc' = "loop" =>
        /\ AtBlock /\ Fits
        /\ floatBuffer' = floatBuffer + 5 + L
        /\ floatBuffer' >= floatBuffer + 5
        /\ floatBuffer' <= Len(b))
  /\ (pc = "loop" /\ pc' # "loop" => floatBuffer' = floatBuffer)
  /\ (pc = "loop" /\ Remaining < 5 => pc' = "return" /\ err' = "nil" /\ f' = f)

C8_Inv ==
  /\ (floatBuffer # 0 => 4 <= floatBuffer /\ floatBuffer <= Len(b))
  /\ (pc \in {"return", "done"} /\ err = "nil" => Remaining \in 0..4)
  /\ (Ended /\ C8_WellFormed => pc = "done" /\ ret[1].err = "nil" /\ Remaining \in 0..4)

C9_ShortRecordIsTypedError ==
  (Ended /\ AtBlock /\ Fits /\ ((CurTag = 1 /\ L < 14) \/ (CurTag = 2 /\ L < 15))) =>
     (pc = "done" /\ ret[1].err # "nil")

(* C10 as claimed: each Pages, Chars or KerningPairs block appends its     *)
(* records to what the earlier blocks of its kind produced, and the length *)
(* of pages, chars and kerning_pairs never decreases.                      *)
C10_BlocksAppend ==
  [][/\ Len(f'.Pages) >= Len(f.Pages)
     /\ Len(f'.Chars) >= Len(f.Chars)
     /\ Len(f'.KerningPairs) >= Len(f.KerningPairs)
     /\ (Decoded(3) => SubSeq(f'.Pages, 1, Len(f.Pages)) = f.Pages)
     /\ (Decoded(4) => /\ Len(f'.Chars) = Len(f.Chars) + (L \div 20)
                        /\ SubSeq(f'.Chars, 1, Len(f.Chars)) = f.Chars)
     /\ (Decoded(5) => /\ Len(f'.KerningPairs) = Len(f.KerningPairs) + (L \div 10)
                        /\ SubSeq(f'.KerningPairs, 1, Len(f.KerningPairs)) = f.KerningPairs)]_vars

(* C10 as amended: each Pages, Chars or KerningPairs block replaces the    *)
(* sequence of its kind: after the block the sequence holds exactly the    *)
(* records of that block, in stream order, whatever it held before, and    *)
(* the sequences of the other kinds are unchanged.                         *)
C10_BlockPages ==
  LET segs == Split(Transform(3 * L, Payload).out)
  IN SubSeq(segs, 1, Len(segs) - 1)

C10_BlockChars ==
  [i \in 1..(L \div 20) |-> Char_fromBinary(Mem, Slice(floatBuffer + 5 + (i - 1) * 20, 20, 20))]

C10_BlockKerningPairs ==
  [i \in 1..(L \div 10) |->
     KerningPair_fromBinary(Mem, Slice(floatBuffer + 5 + (i - 1) * 10, 10, 10))]

C10_BlocksReplace ==
  [][/\ (Decoded(3) => /\ f'.Pages = C10_BlockPages
                        /\ f'.Chars = f.Chars
                        /\ f'.KerningPairs = f.KerningPairs)
     /\ (Decoded(4) => /\ f'.Chars = C10_BlockChars
                        /\ f'.Pages = f.Pages
                        /\ f'.KerningPairs = f.KerningPairs)
     /\ (Decoded(5) => /\ f'.KerningPairs = C10_BlockKerningPairs
                        /\ f'.Pages = f.Pages
                        /\ f'.Chars = f.Chars)]_vars

\* A Chars block of two records was followed by one of a single record.
C10_Witness ==
  /\ pc = "done"
  /\ ret[1].err = "nil"
  /\ Len(b) > 50
  /\ b[5] = 4 /\ b[6] = 40
  /\ b[50] = 4 /\ b[51] = 20
  /\ Len(ret[1].f.Chars) = 1
  /\ ret[1].f.Chars[1].Id = [hi |-> 0, lo |-> 65]

====
